---- MODULE Spec2Model ----
(***************************************************************************)
(* Model of o2::event_visualisation::MultiView                             *)
(* (EventVisualisation/View/src/MultiView.cxx): the scenes, the two        *)
(* projection managers, the lookup list of detector geometries and the     *)
(* operations that register and destroy geometry and event content.        *)
(***************************************************************************)
EXTENDS Integers, Sequences, FiniteSets, TLC

(* ---------------------------------------------------------------------- *)
(* Bounds of the model                                                     *)
(* ---------------------------------------------------------------------- *)

\* drawGeometryForDetector is offered while mDetectors is shorter than this
MaxDetectors == 2

\* a registration is offered while every geometry scene it targets holds
\* fewer registered elements than this
MaxSceneGeom == 1

\* event registration is offered while the current event and the projected
\* event scenes hold fewer elements than this
MaxEvent == 1

\* the same bound where only the event calls are made
MaxFrame == 3

\* EVisualisationDataType::NdataTypes, the length of the two arrays given to
\* registerElements (its value is set in VisualisationConstants.h)
NdataTypes == 2

(* ---------------------------------------------------------------------- *)
(* Values                                                                  *)
(* ---------------------------------------------------------------------- *)

\* nullptr as a TEveGeoShape*
NullShape == [kind |-> "null"]

\* detector names a caller may pass
DetectorNames == {"A", "B"}

\* the detector used where one is enough
OneDetector == {"B"}

\* TEveGeoShape instances: two distinct instances are named "A", one "B"
Shapes ==
  { [kind |-> "shape", name |-> "A", id |-> 1],
    [kind |-> "shape", name |-> "A", id |-> 2],
    [kind |-> "shape", name |-> "B", id |-> 3] }

\* TEveElement instances handed to registerElements / registerElement
EventElements == { [kind |-> "event", id |-> 1], [kind |-> "event", id |-> 2] }

\* enum EScenes
Scene3dGeom == "Scene3dGeom"
SceneRphiGeom == "SceneRphiGeom"
SceneZYGeom == "SceneZYGeom"
Scene3dEvent == "Scene3dEvent"
SceneRphiEvent == "SceneRphiEvent"
SceneZYEvent == "SceneZYEvent"
EScenes == {Scene3dGeom, SceneRphiGeom, SceneZYGeom, Scene3dEvent, SceneRphiEvent, SceneZYEvent}
GeomScenes == {Scene3dGeom, SceneRphiGeom, SceneZYGeom}

\* enum EProjections
ProjectionRphi == "ProjectionRphi"
ProjectionZY == "ProjectionZY"
EProjections == {ProjectionRphi, ProjectionZY}

(* ---------------------------------------------------------------------- *)
(* State                                                                   *)
(* ---------------------------------------------------------------------- *)

VARIABLES
  mDetectors,    \* std::vector<TEveGeoShape*>: the lookup list
  mScenes,       \* EScenes -> sequence of the scene's child elements
  mProjections,  \* EProjections -> current depth of the projection manager
  currentEvent,  \* gEve->GetCurrentEvent(): [exists, children]
  pc,            \* "running", "exited" (exit(-1)) or "crashed"
  errorLog,      \* messages written with LOG(error)
  call           \* the public operation that ran last, with its arguments

vars == <<mDetectors, mScenes, mProjections, currentEvent, pc, errorLog, call>>

\* the program state as one value, threaded through the statements of a method
State ==
  [ mDetectors |-> mDetectors, mScenes |-> mScenes, mProjections |-> mProjections,
    currentEvent |-> currentEvent, pc |-> pc, errorLog |-> errorLog ]

\* the next state is the value a method returns
Commit(t) ==
  /\ mDetectors' = t.mDetectors
  /\ mScenes' = t.mScenes
  /\ mProjections' = t.mProjections
  /\ currentEvent' = t.currentEvent
  /\ pc' = t.pc
  /\ errorLog' = t.errorLog

(* ---------------------------------------------------------------------- *)
(* Render engine primitives used by the methods                            *)
(* ---------------------------------------------------------------------- *)

\* TEveElement::AddElement / TEveManager::AddElement(el, scene)
AddElement(st, el, scene) ==
  IF st.pc # "running" THEN st
  ELSE [st EXCEPT !.mScenes[scene] = Append(@, el)]

\* TEveProjectionManager::SetCurrentDepth
SetCurrentDepth(st, projection, d) ==
  IF st.pc # "running" THEN st
  ELSE [st EXCEPT !.mProjections[projection] = d]

\* TEveProjectionManager::ImportElements(el, scene): the projected copy of el,
\* made at the manager's current depth, becomes a child of scene
ImportElements(st, projection, el, scene) ==
  IF st.pc # "running" THEN st
  ELSE [st EXCEPT !.mScenes[scene] =
          Append(@, [kind |-> "projected", projection |-> projection,
                     of |-> el, depth |-> st.mProjections[projection]])]

\* the TEveProjectionAxes built on the stack in the constructor's loop
Axes(projection) == [kind |-> "axes", projection |-> projection]

\* whether a scene still lists an axes object whose lifetime has ended
HoldsAxes(st, scene) ==
  \E i \in DOMAIN st.mScenes[scene] : st.mScenes[scene][i].kind = "axes"

\* TEveElement::DestroyElements on a scene. A child that is a destroyed stack
\* object is a dangling pointer: with faults the access ends the process,
\* without it the child list is emptied like any other.
DestroyElements(st, scene, faults) ==
  IF st.pc # "running" THEN st
  ELSE IF faults /\ HoldsAxes(st, scene) THEN [st EXCEPT !.pc = "crashed"]
  ELSE [st EXCEPT !.mScenes[scene] = <<>>]

\* removal of one child from a scene's list (TEveElement's destructor
\* unlinking the element from its parents)
RemoveElement(st, el, scene) ==
  [st EXCEPT !.mScenes[scene] = SelectSeq(@, LAMBDA c : c # el)]

\* MultiView::getSceneOfProjection
getSceneOfProjection(projection) ==
  IF projection = ProjectionRphi THEN SceneRphiGeom
  ELSE IF projection = ProjectionZY THEN SceneZYGeom
  ELSE "NumberOfScenes"

(* ---------------------------------------------------------------------- *)
(* Construction                                                            *)
(* ---------------------------------------------------------------------- *)

\* one iteration of the axes loop: the local axes object is added to the
\* geometry scene of its projection and destroyed at the end of the
\* iteration; unlinked says whether its destructor took it out of the scene
\* or the scene keeps the stale pointer
AxesIteration(st, projection, unlinked) ==
  LET scene == getSceneOfProjection(projection)
      added == AddElement(st, Axes(projection), scene)
  IN IF unlinked THEN RemoveElement(added, Axes(projection), scene) ELSE added

\* MultiView::MultiView(); hasEvent is whether gEve has a current event
MultiViewCtor(showAxes, unlinked, hasEvent) ==
  LET fresh ==
        [ mDetectors |-> <<>>,
          mScenes |-> [s \in EScenes |-> <<>>],
          mProjections |-> [p \in EProjections |-> 0],
          currentEvent |-> [exists |-> hasEvent, children |-> <<>>],
          pc |-> "running",
          errorLog |-> <<>> ]
  IN IF showAxes
     THEN AxesIteration(AxesIteration(fresh, ProjectionRphi, unlinked), ProjectionZY, unlinked)
     ELSE fresh

(* ---------------------------------------------------------------------- *)
(* Geometry                                                                *)
(* ---------------------------------------------------------------------- *)

\* GeometryManager::getGeometryForDetector: the shapes the provider may
\* resolve a name to (a shape tagged with that name), or none
getGeometryForDetector(detectorName) ==
  {s \in Shapes : s.name = detectorName} \cup {NullShape}

\* the loop of getDetectorGeometry from index i on
RECURSIVE ScanDetectors(_, _, _)
ScanDetectors(list, detectorName, i) ==
  IF i > Len(list) THEN NullShape
  ELSE IF list[i].name = detectorName THEN list[i]
  ELSE ScanDetectors(list, detectorName, i + 1)

\* the scan of getDetectorGeometry run from the back of the list
RECURSIVE ScanDetectorsBackwards(_, _, _)
ScanDetectorsBackwards(list, detectorName, i) ==
  IF i < 1 THEN NullShape
  ELSE IF list[i].name = detectorName THEN list[i]
  ELSE ScanDetectorsBackwards(list, detectorName, i - 1)

\* getDetectorGeometry returning the last match instead of the first
getDetectorGeometryLastMatch(st, detectorName) ==
  ScanDetectorsBackwards(st.mDetectors, detectorName, Len(st.mDetectors))

\* MultiView::getDetectorGeometry
getDetectorGeometry(st, detectorName) == ScanDetectors(st.mDetectors, detectorName, 1)

\* the null check of registerGeometry: LOG(error) and exit(-1)
FatalNullGeometry(st) ==
  [st EXCEPT !.pc = "exited",
             !.errorLog = Append(@, "MultiView::registerGeometry -- geometry is NULL!")]

\* the branch without its closing SetCurrentDepth(0)
ImportGeometryNoReset(st, geom, projection, scene) ==
  ImportElements(SetCurrentDepth(st, projection, -10), projection, geom, scene)

\* the rPhi / zy branch of registerGeometry: set depth, import, reset depth
ImportGeometry(st, geom, projection, scene) ==
  SetCurrentDepth(
    ImportElements(SetCurrentDepth(st, projection, -10), projection, geom, scene),
    projection, 0)

\* registerGeometry with the null check placed after the threeD branch
registerGeometryLateNullCheck(st, geom, threeD, rPhi, zy) ==
  LET s1 == IF threeD THEN AddElement(st, geom, Scene3dGeom) ELSE st
  IN IF geom = NullShape THEN FatalNullGeometry(s1)
     ELSE
       LET s2 == IF rPhi THEN ImportGeometry(s1, geom, ProjectionRphi, SceneRphiGeom) ELSE s1
           s3 == IF zy THEN ImportGeometry(s2, geom, ProjectionZY, SceneZYGeom) ELSE s2
       IN s3

\* registerGeometry importing into the R-Phi scene whatever the rPhi flag
registerGeometryAlwaysRphi(st, geom, threeD, rPhi, zy) ==
  IF geom = NullShape THEN FatalNullGeometry(st)
  ELSE
    LET s1 == IF threeD THEN AddElement(st, geom, Scene3dGeom) ELSE st
        s2 == ImportGeometry(s1, geom, ProjectionRphi, SceneRphiGeom)
        s3 == IF zy THEN ImportGeometry(s2, geom, ProjectionZY, SceneZYGeom) ELSE s2
    IN s3

\* registerGeometry importing before the depth is set to -10
registerGeometryImportFirst(st, geom, threeD, rPhi, zy) ==
  IF geom = NullShape THEN FatalNullGeometry(st)
  ELSE
    LET s1 == IF threeD THEN AddElement(st, geom, Scene3dGeom) ELSE st
        s2 == IF rPhi
              THEN SetCurrentDepth(
                     SetCurrentDepth(
                       ImportElements(s1, ProjectionRphi, geom, SceneRphiGeom),
                       ProjectionRphi, -10),
                     ProjectionRphi, 0)
              ELSE s1
        s3 == IF zy THEN ImportGeometry(s2, geom, ProjectionZY, SceneZYGeom) ELSE s2
    IN s3

\* MultiView::registerGeometry
registerGeometry(st, geom, threeD, rPhi, zy) ==
  IF geom = NullShape THEN FatalNullGeometry(st)
  ELSE
    LET s1 == IF threeD THEN AddElement(st, geom, Scene3dGeom) ELSE st
        s2 == IF rPhi THEN ImportGeometry(s1, geom, ProjectionRphi, SceneRphiGeom) ELSE s1
        s3 == IF zy THEN ImportGeometry(s2, geom, ProjectionZY, SceneZYGeom) ELSE s2
    IN s3

\* push_back skipped when a shape of that name is already listed
PushBackDetectorUnique(st, shape) ==
  IF st.pc # "running" THEN st
  ELSE IF \E i \in DOMAIN st.mDetectors : st.mDetectors[i].name = shape.name THEN st
  ELSE [st EXCEPT !.mDetectors = Append(@, shape)]

\* mDetectors.push_back(shape)
PushBackDetector(st, shape) ==
  IF st.pc # "running" THEN st
  ELSE [st EXCEPT !.mDetectors = Append(@, shape)]

\* MultiView::drawGeometryForDetector; shape is what the geometry manager
\* returned for detectorName
drawGeometryForDetector(st, shape, threeD, rPhi, zy) ==
  PushBackDetector(registerGeometry(st, shape, threeD, rPhi, zy), shape)

\* mDetectors.clear()
ClearDetectors(st) ==
  IF st.pc # "running" THEN st
  ELSE [st EXCEPT !.mDetectors = <<>>]

\* destroyAllGeometries without mDetectors.clear()
destroyAllGeometriesKeepingList(st, faults) ==
  DestroyElements(
    DestroyElements(
      DestroyElements(st, Scene3dGeom, faults),
      SceneRphiGeom, faults),
    SceneZYGeom, faults)

\* destroyAllGeometries without the Z-Y scene
destroyAllGeometriesTwoScenes(st, faults) ==
  ClearDetectors(
    DestroyElements(
      DestroyElements(st, Scene3dGeom, faults),
      SceneRphiGeom, faults))

\* MultiView::destroyAllGeometries
destroyAllGeometries(st, faults) ==
  ClearDetectors(
    DestroyElements(
      DestroyElements(
        DestroyElements(st, Scene3dGeom, faults),
        SceneRphiGeom, faults),
      SceneZYGeom, faults))

(* ---------------------------------------------------------------------- *)
(* Events                                                                  *)
(* ---------------------------------------------------------------------- *)

\* gEve->GetCurrentEvent()->AddElement(event); without a current event the
\* call goes through a null pointer
AddToCurrentEvent(st, event) ==
  IF st.pc # "running" THEN st
  ELSE IF ~st.currentEvent.exists THEN [st EXCEPT !.pc = "crashed"]
  ELSE [st EXCEPT !.currentEvent.children = Append(@, event)]

\* first loop of registerElements, from dataType on (arrays are 1-based here)
RECURSIVE DefaultLoop(_, _, _)
DefaultLoop(st, elements, dataType) ==
  IF dataType >= NdataTypes THEN st
  ELSE DefaultLoop(
         ImportElements(AddToCurrentEvent(st, elements[dataType + 1]),
                        ProjectionZY, elements[dataType + 1], SceneZYEvent),
         elements, dataType + 1)

\* second loop of registerElements
RECURSIVE PhiLoop(_, _, _)
PhiLoop(st, phiElements, dataType) ==
  IF dataType >= NdataTypes THEN st
  ELSE PhiLoop(
         ImportElements(st, ProjectionRphi, phiElements[dataType + 1], SceneRphiEvent),
         phiElements, dataType + 1)

\* registerElements importing the default set into the R-Phi scene too
registerElementsDefaultOnly(st, elements, phiElements) ==
  PhiLoop(DefaultLoop(st, elements, 0), elements, 0)

\* MultiView::registerElements
registerElements(st, elements, phiElements) ==
  PhiLoop(DefaultLoop(st, elements, 0), phiElements, 0)

\* MultiView::registerElement
registerElement(st, event) ==
  ImportElements(
    ImportElements(AddToCurrentEvent(st, event), ProjectionRphi, event, SceneRphiEvent),
    ProjectionZY, event, SceneZYEvent)

\* gEve->GetCurrentEvent()->RemoveElements() under its null check
RemoveCurrentEventElements(st) ==
  IF st.currentEvent.exists THEN [st EXCEPT !.currentEvent.children = <<>>] ELSE st

\* destroyAllEvents without the Z-Y event scene
destroyAllEventsKeepingZY(st) ==
  DestroyElements(RemoveCurrentEventElements(st), SceneRphiEvent, FALSE)

\* MultiView::destroyAllEvents
destroyAllEvents(st) ==
  DestroyElements(
    DestroyElements(RemoveCurrentEventElements(st), SceneRphiEvent, FALSE),
    SceneZYEvent, FALSE)

(* ---------------------------------------------------------------------- *)
(* The calls                                                               *)
(* ---------------------------------------------------------------------- *)

\* number of registered (non-axes) children of a scene
NumRegistered(scene) ==
  Cardinality({i \in DOMAIN mScenes[scene] : mScenes[scene][i].kind # "axes"})

\* the geometry scenes a registration with these flags adds to
TargetScenes(threeD, rPhi, zy) ==
  (IF threeD THEN {Scene3dGeom} ELSE {}) \cup
  (IF rPhi THEN {SceneRphiGeom} ELSE {}) \cup
  (IF zy THEN {SceneZYGeom} ELSE {})

\* bound of the model on the geometry scenes
RoomInScenes(threeD, rPhi, zy) ==
  \A scene \in TargetScenes(threeD, rPhi, zy) : NumRegistered(scene) < MaxSceneGeom

\* bound of the model on the event content
RoomForEvents(max) ==
  /\ Len(currentEvent.children) < max
  /\ Len(mScenes[SceneRphiEvent]) < max
  /\ Len(mScenes[SceneZYEvent]) < max

\* the arrays registerElements takes: one element per data type
ElementArrays == [1..NdataTypes -> EventElements]

Init ==
  \E showAxes \in BOOLEAN, unlinked \in BOOLEAN, hasEvent \in BOOLEAN :
    LET t == MultiViewCtor(showAxes, unlinked, hasEvent)
    IN /\ mDetectors = t.mDetectors
       /\ mScenes = t.mScenes
       /\ mProjections = t.mProjections
       /\ currentEvent = t.currentEvent
       /\ pc = t.pc
       /\ errorLog = t.errorLog
       /\ call = [op |-> "MultiView"]

DrawGeometryForDetector(names) ==
  \E detectorName \in names, threeD \in BOOLEAN, rPhi \in BOOLEAN, zy \in BOOLEAN :
    \E shape \in getGeometryForDetector(detectorName) :
      /\ pc = "running"
      /\ Len(mDetectors) < MaxDetectors
      /\ RoomInScenes(threeD, rPhi, zy)
      /\ Commit(drawGeometryForDetector(State, shape, threeD, rPhi, zy))
      /\ call' = [op |-> "drawGeometryForDetector", detectorName |-> detectorName,
                  shape |-> shape, threeD |-> threeD, rPhi |-> rPhi, zy |-> zy]

RegisterGeometry(shapes) ==
  \E geom \in shapes \cup {NullShape}, threeD \in BOOLEAN, rPhi \in BOOLEAN, zy \in BOOLEAN :
    /\ pc = "running"
    /\ RoomInScenes(threeD, rPhi, zy)
    /\ Commit(registerGeometry(State, geom, threeD, rPhi, zy))
    /\ call' = [op |-> "registerGeometry", shape |-> geom,
                threeD |-> threeD, rPhi |-> rPhi, zy |-> zy]

GetDetectorGeometry(names) ==
  \E detectorName \in names :
    /\ pc = "running"
    /\ call' = [op |-> "getDetectorGeometry", detectorName |-> detectorName,
                result |-> getDetectorGeometry(State, detectorName)]
    /\ UNCHANGED <<mDetectors, mScenes, mProjections, currentEvent, pc, errorLog>>

DestroyAllGeometries ==
  \E faults \in BOOLEAN :
    /\ pc = "running"
    /\ Commit(destroyAllGeometries(State, faults))
    /\ call' = [op |-> "destroyAllGeometries"]

RegisterElements(max) ==
  \E elements \in ElementArrays, phiElements \in ElementArrays :
    /\ pc = "running"
    /\ RoomForEvents(max)
    /\ Commit(registerElements(State, elements, phiElements))
    /\ call' = [op |-> "registerElements", elements |-> elements,
                phiElements |-> phiElements]

RegisterElement(max) ==
  \E event \in EventElements :
    /\ pc = "running"
    /\ RoomForEvents(max)
    /\ Commit(registerElement(State, event))
    /\ call' = [op |-> "registerElement", event |-> event]

DestroyAllEvents ==
  /\ pc = "running"
  /\ Commit(destroyAllEvents(State))
  /\ call' = [op |-> "destroyAllEvents"]

\* every public call, with one detector name
Next ==
  \/ DrawGeometryForDetector(OneDetector)
  \/ RegisterGeometry({s \in Shapes : s.name \in OneDetector})
  \/ GetDetectorGeometry(OneDetector)
  \/ DestroyAllGeometries
  \/ RegisterElements(MaxEvent)
  \/ RegisterElement(MaxEvent)
  \/ DestroyAllEvents

Spec == Init /\ [][Next]_vars

\* the calls that use the lookup list, with every detector name and shape
\* instance
NextDetectors ==
  \/ DrawGeometryForDetector(DetectorNames)
  \/ GetDetectorGeometry(DetectorNames)
  \/ DestroyAllGeometries

SpecDetectors == Init /\ [][NextDetectors]_vars

\* the event calls alone, over longer frames
NextEvents ==
  \/ RegisterElements(MaxFrame)
  \/ RegisterElement(MaxFrame)
  \/ DestroyAllEvents

SpecEvents == Init /\ [][NextEvents]_vars

(* ---------------------------------------------------------------------- *)
(* Properties                                                              *)
(* ---------------------------------------------------------------------- *)

Running == pc = "running"

\* the call that ran last is a geometry registration
IsRegistration(c) == c.op \in {"drawGeometryForDetector", "registerGeometry"}

\* indices of the lookup list that hold a shape of the given name
IndicesOf(detectorName) ==
  {i \in DOMAIN mDetectors : mDetectors[i].name = detectorName}

\* a geometry scene holds a registered shape (not only axes)
HoldsShape(scene) == NumRegistered(scene) > 0

\* what a projected child says about its origin, its depth left aside
Origin(child) == <<child.kind, child.projection, child.of>>

\* the children a loop of imports of els through projection appends
ProjectedOrigins(els, projection) ==
  [i \in DOMAIN els |-> <<"projected", projection, els[i]>>]

\* the origins of the children of a scene
OriginsOf(children) == [i \in DOMAIN children |-> Origin(children[i])]

\* the projected child registerGeometry makes of geom through projection
ProjectedGeometry(geom, projection) ==
  [kind |-> "projected", projection |-> projection, of |-> geom, depth |-> -10]

(* ------------------------------- C1 ----------------------------------- *)

\* C1 as stated: getDetectorGeometry(X) returns the shape of the most recent
\* registration under name X since the last destroyAllGeometries, and the
\* null shape when there is none.
C1_ReturnsMostRecentRegistration ==
  call.op = "getDetectorGeometry" =>
    LET idx == IndicesOf(call.detectorName)
    IN IF idx = {} THEN call.result = NullShape
       ELSE call.result = mDetectors[CHOOSE i \in idx : \A j \in idx : j <= i]

\* C1, amended: getDetectorGeometry(X) returns the shape of the first
\* registration under name X since the last destroyAllGeometries (the same
\* instance when X was registered once), and the null shape when X was never
\* registered or destroyAllGeometries ran after its last registration.
C1_ReturnsFirstRegistration ==
  call.op = "getDetectorGeometry" =>
    LET idx == IndicesOf(call.detectorName)
    IN IF idx = {} THEN call.result = NullShape
       ELSE call.result = mDetectors[CHOOSE i \in idx : \A j \in idx : i <= j]

\* a lookup of a name registered twice with different instances
C1_Witness ==
  /\ call.op = "getDetectorGeometry"
  /\ call.result # NullShape
  /\ \E i, j \in IndicesOf(call.detectorName) : mDetectors[i] # mDetectors[j]

(* ------------------------------- C2 ----------------------------------- *)

\* C2 as stated: between calls it is never so that the three geometry scenes
\* are empty while the lookup list is not, nor that the lookup list is empty
\* while a geometry scene holds a registered shape.
C2_ListAndScenesInSync ==
  Running =>
    /\ ~ ((\A scene \in GeomScenes : mScenes[scene] = <<>>) /\ mDetectors # <<>>)
    /\ ~ (mDetectors = <<>> /\ \E scene \in GeomScenes : HoldsShape(scene))

\* C2, amended: destroyAllGeometries leaves the lookup list and the three
\* geometry scenes empty together, and a drawGeometryForDetector call with at
\* least one flag set leaves the lookup list and a geometry scene non-empty
\* together; a call with every flag false, or registerGeometry called
\* directly, may leave one empty and the other not.
C2_InSyncAfterDestroyAndFlaggedDraw ==
  Running =>
    /\ call.op = "destroyAllGeometries" =>
         (mDetectors = <<>>) /\ (\A scene \in GeomScenes : ~ HoldsShape(scene))
    /\ (call.op = "drawGeometryForDetector" /\ (call.threeD \/ call.rPhi \/ call.zy)) =>
         (mDetectors # <<>>) /\ (\E scene \in GeomScenes : HoldsShape(scene))

\* a drawGeometryForDetector with only rPhi set has returned: the lookup
\* list and one geometry scene are filled
C2_Witness ==
  /\ Running
  /\ call.op = "drawGeometryForDetector"
  /\ ~ call.threeD /\ call.rPhi /\ ~ call.zy
  /\ mDetectors # <<>>
  /\ HoldsShape(SceneRphiGeom)
  /\ ~ HoldsShape(Scene3dGeom)

(* ------------------------------- C3 ----------------------------------- *)

\* C3: a registration of the null shape, by drawGeometryForDetector or by
\* registerGeometry and with any flags, ends the process with an error
\* logged; no scene, projection depth, lookup list or event content has
\* changed, and no call is made from a process that has ended.
C3_NullGeometryIsFatal ==
  [][ /\ Running
      /\ (IsRegistration(call') /\ call'.shape = NullShape) =>
           /\ pc' = "exited"
           /\ errorLog' = Append(errorLog, "MultiView::registerGeometry -- geometry is NULL!")
           /\ mScenes' = mScenes
           /\ mProjections' = mProjections
           /\ mDetectors' = mDetectors
           /\ currentEvent' = currentEvent
      /\ pc' = "exited" => (IsRegistration(call') /\ call'.shape = NullShape)
    ]_vars

\* the process ended in a drawGeometryForDetector with every flag set
C3_Witness ==
  /\ pc = "exited"
  /\ call.op = "drawGeometryForDetector"
  /\ call.threeD /\ call.rPhi /\ call.zy
  /\ errorLog # <<>>

(* ------------------------------- C4 ----------------------------------- *)

\* C4: a registration with rPhi (zy) set leaves the R-Phi (Z-Y) projection's
\* depth as it was before the call, and the child it appended to the
\* projected geometry scene was made at depth -10.
C4_DepthBracket ==
  [][ (IsRegistration(call') /\ pc' = "running") =>
        /\ call'.rPhi =>
             /\ mProjections'[ProjectionRphi] = mProjections[ProjectionRphi]
             /\ mScenes'[SceneRphiGeom] =
                  Append(mScenes[SceneRphiGeom], ProjectedGeometry(call'.shape, ProjectionRphi))
        /\ call'.zy =>
             /\ mProjections'[ProjectionZY] = mProjections[ProjectionZY]
             /\ mScenes'[SceneZYGeom] =
                  Append(mScenes[SceneZYGeom], ProjectedGeometry(call'.shape, ProjectionZY))
    ]_vars

\* a registration into both projections has returned
C4_Witness ==
  /\ Running
  /\ call.op = "registerGeometry"
  /\ call.rPhi /\ call.zy
  /\ HoldsShape(SceneRphiGeom) /\ HoldsShape(SceneZYGeom)

(* ------------------------------- C5 ----------------------------------- *)

\* C5: registerElement(e) called right after destroyAllEvents leaves e as the
\* only child of the current event and its projection as the only child of
\* the R-Phi and of the Z-Y event scene.
C5_OneElementAfterDestroy ==
  [][ (call.op = "destroyAllEvents" /\ call'.op = "registerElement" /\ pc' = "running") =>
        /\ currentEvent'.children = <<call'.event>>
        /\ OriginsOf(mScenes'[SceneRphiEvent]) = ProjectedOrigins(<<call'.event>>, ProjectionRphi)
        /\ OriginsOf(mScenes'[SceneZYEvent]) = ProjectedOrigins(<<call'.event>>, ProjectionZY)
    ]_vars

\* registerElement has returned with one child in each event scene
C5_Witness ==
  /\ Running
  /\ call.op = "registerElement"
  /\ Len(currentEvent.children) = 1
  /\ Len(mScenes[SceneRphiEvent]) = 1
  /\ Len(mScenes[SceneZYEvent]) = 1

(* ------------------------------- C6 ----------------------------------- *)

\* C6: registerElements(elements, phiElements) appends the NdataTypes default
\* elements to the current event, their projections to the Z-Y event scene
\* and the projections of the NdataTypes phi elements to the R-Phi event
\* scene.
C6_BulkRegistration ==
  [][ (call'.op = "registerElements" /\ pc' = "running") =>
        /\ currentEvent'.children = currentEvent.children \o call'.elements
        /\ OriginsOf(mScenes'[SceneZYEvent]) =
             OriginsOf(mScenes[SceneZYEvent]) \o ProjectedOrigins(call'.elements, ProjectionZY)
        /\ OriginsOf(mScenes'[SceneRphiEvent]) =
             OriginsOf(mScenes[SceneRphiEvent]) \o ProjectedOrigins(call'.phiElements, ProjectionRphi)
        /\ Len(call'.elements) = NdataTypes
        /\ Len(call'.phiElements) = NdataTypes
    ]_vars

\* registerElements has returned, its two sets different, on earlier content
C6_Witness ==
  /\ Running
  /\ call.op = "registerElements"
  /\ call.elements # call.phiElements
  /\ Len(currentEvent.children) > NdataTypes

(* ------------------------------- C7 ----------------------------------- *)

\* C7: when destroyAllGeometries has returned, the lookup list is empty and
\* each of the three geometry scenes has no children, axes included.
C7_EmptyAfterDestroyAllGeometries ==
  (call.op = "destroyAllGeometries" /\ Running) =>
    /\ Len(mDetectors) = 0
    /\ \A scene \in GeomScenes : Len(mScenes[scene]) = 0

\* destroyAllGeometries has returned
C7_Witness ==
  /\ Running
  /\ call.op = "destroyAllGeometries"
  /\ \A scene \in GeomScenes : mScenes[scene] = <<>>

(* ------------------------------- C8 ----------------------------------- *)

\* C8: each drawGeometryForDetector that returns appends its shape to the end
\* of the lookup list, whatever its name and flags, and only
\* destroyAllGeometries takes entries out: after N such calls the list holds
\* the N shapes in call order.
C8_EveryDrawAppends ==
  [][ /\ (call'.op = "drawGeometryForDetector" /\ pc' = "running") =>
           mDetectors' = Append(mDetectors, call'.shape)
      /\ (call'.op # "drawGeometryForDetector" /\ pc' = "running") =>
           mDetectors' = IF call'.op = "destroyAllGeometries" THEN <<>> ELSE mDetectors
    ]_vars

\* the same instance listed twice, the second time with every flag false
C8_Witness ==
  /\ Running
  /\ call.op = "drawGeometryForDetector"
  /\ ~ call.threeD /\ ~ call.rPhi /\ ~ call.zy
  /\ Len(mDetectors) = 2
  /\ mDetectors[1] = mDetectors[2]

(* ------------------------------- C9 ----------------------------------- *)

\* C9: a registration changes no geometry scene whose flag is not set, no
\* depth of a projection whose flag is not set, and no event content; with
\* only threeD set the R-Phi and Z-Y geometry scenes, both depths and the
\* event scenes are as before.
C9_OnlyFlaggedScenesChange ==
  [][ (IsRegistration(call') /\ pc' = "running") =>
        /\ \A scene \in GeomScenes \ TargetScenes(call'.threeD, call'.rPhi, call'.zy) :
             mScenes'[scene] = mScenes[scene]
        /\ \A scene \in TargetScenes(call'.threeD, call'.rPhi, call'.zy) :
             Len(mScenes'[scene]) = Len(mScenes[scene]) + 1
        /\ ~ call'.rPhi => mProjections'[ProjectionRphi] = mProjections[ProjectionRphi]
        /\ ~ call'.zy => mProjections'[ProjectionZY] = mProjections[ProjectionZY]
        /\ \A scene \in EScenes \ GeomScenes : mScenes'[scene] = mScenes[scene]
        /\ currentEvent' = currentEvent
    ]_vars

\* a registration with only threeD set has returned, event content present
C9_Witness ==
  /\ Running
  /\ call.op = "drawGeometryForDetector"
  /\ call.threeD /\ ~ call.rPhi /\ ~ call.zy
  /\ mScenes[Scene3dGeom] # <<>>
  /\ mScenes[SceneRphiEvent] # <<>>

(* ------------------------------- C10 ---------------------------------- *)

\* C10: between calls the depth of both projections is 0; every child of a
\* projected event scene was imported at depth 0 and every projected child of
\* a geometry scene at depth -10.
C10_DepthZeroBetweenCalls ==
  /\ \A projection \in EProjections : mProjections[projection] = 0
  /\ \A scene \in {SceneRphiEvent, SceneZYEvent} :
       \A i \in DOMAIN mScenes[scene] : mScenes[scene][i].depth = 0
  /\ \A scene \in {SceneRphiGeom, SceneZYGeom} :
       \A i \in DOMAIN mScenes[scene] :
         mScenes[scene][i].kind = "projected" => mScenes[scene][i].depth = -10

\* event content registered after geometry was imported into both projections
C10_Witness ==
  /\ Running
  /\ call.op = "registerElements"
  /\ HoldsShape(SceneRphiGeom) /\ HoldsShape(SceneZYGeom)
  /\ mScenes[SceneRphiEvent] # <<>> /\ mScenes[SceneZYEvent] # <<>>

====
